---- MODULE Spec2Model ----
(***************************************************************************)
(* Model of internal/providers/googleai.go: the GoogleAIProvider, its      *)
(* Initialize sequence, and the retry protocol (withRetry and              *)
(* withRetryStructured) behind GenerateText, GenerateWithStructuredOutput  *)
(* and CallTool.                                                           *)
(***************************************************************************)
EXTENDS Integers, Sequences, FiniteSets, TLC

(***************************************************************************)
(* 64-bit two's-complement integers (Go int / int64 / time.Duration).      *)
(* A value is a tuple of Int64Bytes bytes, least significant first.        *)
(***************************************************************************)
Int64Bytes == 8
WideBytes == 16
ByteBase == 256

RECURSIVE NatBytes(_, _)
NatBytes(n, k) == IF k = 0 THEN <<>> ELSE <<n % ByteBase>> \o NatBytes(n \div ByteBase, k - 1)

FromNat(n) == NatBytes(n, Int64Bytes)

Zero64 == FromNat(0)

\* column i of the schoolbook product of a and b (1-based), without carry
RECURSIVE MulColumn(_, _, _, _)
MulColumn(a, b, i, j) ==
    IF j > i THEN 0
    ELSE (IF j <= Len(a) /\ (i - j + 1) <= Len(b) THEN a[j] * b[i - j + 1] ELSE 0)
         + MulColumn(a, b, i, j + 1)

RECURSIVE MulBytes(_, _, _, _, _)
MulBytes(a, b, i, carry, n) ==
    IF i > n THEN <<>>
    ELSE LET s == MulColumn(a, b, i, 1) + carry
         IN  <<s % ByteBase>> \o MulBytes(a, b, i + 1, s \div ByteBase, n)

\* a * b on int64: the low 64 bits of the product (Go wraps on overflow)
Mul64(a, b) == MulBytes(a, b, 1, 0, Int64Bytes)

\* the mathematical product of two non-negative int64 values, 128 bits wide
MulExact(a, b) == MulBytes(a, b, 1, 0, WideBytes)

\* time.Duration(1 << s): the untyped 1 is shifted as an int64, so bit s is
\* set, or the value is 0 once every bit is shifted out
Shl1(s) ==
    [i \in 1..Int64Bytes |->
        IF s >= 0 /\ s < 8 * Int64Bytes /\ (s \div 8) = i - 1 THEN 2 ^ (s % 8) ELSE 0]

IsNeg(a) == a[Len(a)] >= 128

\* unsigned comparison of two byte tuples of the same length
ULess(a, b) ==
    \E i \in 1..Len(a) : /\ a[i] < b[i]
                         /\ \A j \in (i + 1)..Len(a) : a[j] = b[j]

\* signed comparison a < b on int64
SLess(a, b) == IF IsNeg(a) # IsNeg(b) THEN IsNeg(a) ELSE ULess(a, b)

\* Go's builtin min on two time.Duration values
Min64(a, b) == IF SLess(b, a) THEN b ELSE a

\* zero extension of a non-negative int64 to 128 bits
Widen(a) == a \o [i \in 1..(WideBytes - Int64Bytes) |-> 0]

Low64(w) == SubSeq(w, 1, Int64Bytes)

(***************************************************************************)
(* Strings: strings.ToLower and strings.Contains.                          *)
(***************************************************************************)
UpperLetters == "ABCDEFGHIJKLMNOPQRSTUVWXYZ"
LowerLetters == "abcdefghijklmnopqrstuvwxyz"

LowerChar(ch) ==
    IF \E i \in 1..Len(UpperLetters) : SubSeq(UpperLetters, i, i) = ch
    THEN LET i == CHOOSE k \in 1..Len(UpperLetters) : SubSeq(UpperLetters, k, k) = ch
         IN  SubSeq(LowerLetters, i, i)
    ELSE ch

RECURSIVE ToLower(_)
ToLower(s) ==
    IF Len(s) = 0 THEN ""
    ELSE LowerChar(SubSeq(s, 1, 1)) \o ToLower(SubSeq(s, 2, Len(s)))

Contains(s, p) ==
    \E i \in 1..(Len(s) - Len(p) + 1) : SubSeq(s, i, i + Len(p) - 1) = p

(***************************************************************************)
(* Errors.  An error returned by the model function is its message; the   *)
(* nil error is NilErr.  Errors returned by the provider are records.     *)
(***************************************************************************)
NilErr == "<nil>"

retryablePatternsWithDeadline ==
    << "rate limit", "too many requests", "quota exceeded", "service unavailable",
       "internal error", "timeout", "connection reset", "temporary failure",
       "server error", "resource exhausted", "deadline exceeded", "canceled" >>

\* the patterns of isRetryable, lines 244-255
retryablePatterns ==
    << "rate limit", "too many requests", "quota exceeded", "service unavailable",
       "internal error", "timeout", "connection reset", "temporary failure",
       "server error", "resource exhausted" >>

isRetryableNoLower(err) ==
    IF err = NilErr THEN FALSE
    ELSE \E k \in 1..Len(retryablePatterns) : Contains(err, retryablePatterns[k])

isRetryable(err) ==
    IF err = NilErr THEN FALSE
    ELSE LET errStr == ToLower(err)
         IN  \E k \in 1..Len(retryablePatterns) : Contains(errStr, retryablePatterns[k])

\* messages the model function (genkit.GenerateText / genkit.Generate) fails with
ErrTooManyRequests == "429 Too Many Requests"
ErrUnavailable == "503 Service Unavailable"
ErrAPIKey == "API key not valid"
ErrSchema == "model failed to generate output matching expected schema"
ErrCanceled == "context canceled"
ErrDeadline == "context deadline exceeded"

TransientErrors == {ErrTooManyRequests, ErrUnavailable}
FatalErrors == {ErrAPIKey}

NoError == [kind |-> "nil", text |-> "", attempts |-> 0, wrapped |-> NilErr]

\* errors.New(text) / fmt.Errorf(text) without a wrapped error
NewError(text) == [kind |-> "new", text |-> text, attempts |-> 0, wrapped |-> NilErr]

\* ctx.Err() of a context in state st
CtxErr(st) ==
    IF st = "canceled" THEN [kind |-> "ctx", text |-> ErrCanceled, attempts |-> 0, wrapped |-> NilErr]
    ELSE IF st = "deadline" THEN [kind |-> "ctx", text |-> ErrDeadline, attempts |-> 0, wrapped |-> NilErr]
    ELSE NoError

\* fmt.Errorf("... failed after %d attempts: %w", n, lastErr)
AggregatedError(text, n, lastErr) ==
    [kind |-> "wrap", text |-> text, attempts |-> n, wrapped |-> lastErr]

(***************************************************************************)
(* Bounds of the model.                                                    *)
(***************************************************************************)
MaxInits == 2
MaxRetriesCapped == 3
MaxStubFailures == 4
NumCalls == 2
Calls == 1..NumCalls

\* the most invocations one call makes in the concurrent runs explored
MaxConcInvocations == 2

\* a limit on the model invocations in flight
MaxInFlight == 1

\* the length of the document of a pipeline run, in characters
DocLen == 8

\* ProcessingConfig.DefaultRecursiveDepth and AgenticRAGOptions.RecursiveDepth
DefaultRecursiveDepth == 4
RecursiveDepth == 3

\* the selection threshold in tenths (0.5)
Threshold == 5

(***************************************************************************)
(* State.                                                                  *)
(***************************************************************************)
VARIABLES
    initialized,   \* GoogleAIProvider.initialized
    retryConfig,   \* GoogleAIProvider.retryConfig
    config,        \* GoogleAIProvider.config
    genkit,        \* GoogleAIProvider.genkit: 0 is nil, k > 0 the k-th instance
    init,          \* the Initialize call in progress and the record of the last one
    call,          \* the GenerateText / GenerateWithStructuredOutput / CallTool / GenerateStream calls
    slots,         \* the calls a run may start
    mgr,           \* the provider manager's GenerateText with fallback
    ctl            \* the Drill-Down Controller of one pipeline run

provider == <<initialized, retryConfig, config, genkit>>
vars == <<initialized, retryConfig, config, genkit, init, call, slots, mgr, ctl>>

Second == FromNat(1000000000)

\* the retry configuration installed by NewGoogleAIProvider
DefaultRetryConfig ==
    [MaxRetries |-> 3,
     BaseDelay  |-> Mul64(FromNat(1), Second),
     MaxDelay   |-> Mul64(FromNat(30), Second)]

GoogleAIProviderConfig(apiKey, defaultModel) ==
    [APIKey |-> apiKey, DefaultModel |-> defaultModel]

DefaultModelName == "gemini-1.5-flash"

(***************************************************************************)
(* Initialize.                                                             *)
(***************************************************************************)
\* values of a map[string]interface{} entry: absent, a string, or another type
Absent == <<"absent", "">>
StringValue(s) == <<"string", s>>
IntValue == <<"int", "42">>

ApiKeyInputs == {Absent, IntValue, StringValue(""), StringValue("key-A")}
ModelInputs == {Absent, StringValue("gemini-1.5-pro")}

\* the type assertion config[k].(string): the string, or "" when !ok
parseConfig(cfg) ==
    GoogleAIProviderConfig(
        IF cfg.api_key[1] = "string" THEN cfg.api_key[2] ELSE "",
        IF cfg.default_model[1] = "string" THEN cfg.default_model[2] ELSE "")

GetModel == IF config.DefaultModel = "" THEN DefaultModelName ELSE config.DefaultModel

IsAvailable == config.APIKey # "" /\ initialized

NoSnapshot == [initialized |-> FALSE, config |-> GoogleAIProviderConfig("", ""), genkit |-> 0]

\* no Initialize call is running; result is what the last one returned
\* configBy is the Initialize call that stored p.config (0: the constructor)
InitIdle(result, started, succeeded, configBy) ==
    [pc |-> "idle", googleConfig |-> GoogleAIProviderConfig("", ""), genkitInstance |-> 0,
     result |-> result, pre |-> NoSnapshot, started |-> started, succeeded |-> succeeded,
     configBy |-> configBy]

\* Initialize(ctx, cfg) with the key stored before it is validated
InitializeBeginWithEarlyStore(k, m) ==
    /\ init.pc = "idle"
    /\ init.started < MaxInits
    /\ LET parsed == parseConfig([api_key |-> k, default_model |-> m])
       IN  /\ config' = parsed
           /\ IF parsed.APIKey = ""
              THEN init' = InitIdle("Google AI API key is required",
                                    init.started + 1, init.succeeded, init.started + 1)
              ELSE init' = [init EXCEPT
                            !.pc = "genkitInit",
                            !.googleConfig = parsed,
                            !.result = "running",
                            !.pre = [initialized |-> initialized, config |-> config,
                                     genkit |-> genkit],
                            !.started = init.started + 1,
                            !.configBy = init.started + 1]
    /\ UNCHANGED <<initialized, retryConfig, genkit, call, slots, mgr, ctl>>

\* Initialize(ctx, cfg) with cfg = {api_key: k, default_model: m}, up to the
\* call of genkit.Init (lines 58-81); pre is the provider as the call found it
InitializeBeginWith(k, m) ==
    /\ init.pc = "idle"
    /\ init.started < MaxInits
    /\ LET parsed == parseConfig([api_key |-> k, default_model |-> m])
       IN  IF parsed.APIKey = ""
           THEN /\ init' = InitIdle("Google AI API key is required",
                                    init.started + 1, init.succeeded, init.configBy)
                /\ UNCHANGED config
           ELSE LET googleConfig ==
                      IF parsed.DefaultModel = ""
                      THEN GoogleAIProviderConfig(parsed.APIKey, DefaultModelName)
                      ELSE parsed
                IN  /\ config' = googleConfig
                    /\ init' = [init EXCEPT
                          !.pc = "genkitInit",
                          !.googleConfig = googleConfig,
                          !.result = "running",
                          !.pre = [initialized |-> initialized, config |-> config,
                                   genkit |-> genkit],
                          !.started = init.started + 1,
                          !.configBy = init.started + 1]
    /\ UNCHANGED <<initialized, retryConfig, genkit, call, slots, mgr, ctl>>

InitializeBegin ==
    \E k \in ApiKeyInputs, m \in ModelInputs : InitializeBeginWith(k, m)

\* genkit.Init returns (lines 81-92); the instance it creates is named after
\* the Initialize call that created it
InitializeGenkitReturn ==
    /\ init.pc = "genkitInit"
    /\ \E ok \in BOOLEAN :
         IF ok
         THEN init' = [init EXCEPT !.pc = "pluginInit", !.genkitInstance = init.started]
         ELSE init' = InitIdle("failed to initialize Genkit", init.started, init.succeeded, init.configBy)
    /\ UNCHANGED <<initialized, retryConfig, config, genkit, call, slots, mgr, ctl>>

\* googleAIPlugin.Init returns, and a failure clears the initialized flag
InitializePluginReturnClearing ==
    /\ init.pc = "pluginInit"
    /\ \E ok \in BOOLEAN :
         IF ok
         THEN /\ genkit' = init.genkitInstance
              /\ initialized' = TRUE
              /\ init' = InitIdle("nil", init.started, TRUE, init.configBy)
         ELSE /\ init' = InitIdle("failed to initialize Google AI plugin",
                                  init.started, init.succeeded, init.configBy)
              /\ initialized' = FALSE
              /\ UNCHANGED genkit
    /\ UNCHANGED <<retryConfig, config, call, slots, mgr, ctl>>

\* googleAIPlugin.Init returns (lines 92-105)
InitializePluginReturn ==
    /\ init.pc = "pluginInit"
    /\ \E ok \in BOOLEAN :
         IF ok
         THEN /\ genkit' = init.genkitInstance
              /\ initialized' = TRUE
              /\ init' = InitIdle("nil", init.started, TRUE, init.configBy)
         ELSE /\ init' = InitIdle("failed to initialize Google AI plugin",
                                  init.started, init.succeeded, init.configBy)
              /\ UNCHANGED <<genkit, initialized>>
    /\ UNCHANGED <<retryConfig, config, call, slots, mgr, ctl>>

(***************************************************************************)
(* Calls.                                                                  *)
(***************************************************************************)
\* a model response: id is the invocation that produced it, 0 for "" / nil;
\* valid tells whether the response conforms to the requested output type
EmptyResult == [id |-> 0, valid |-> FALSE]
Response(k, valid) == [id |-> k, valid |-> valid]

\* a *ToolCallResult
NilToolCallResult == [isNil |-> TRUE, Result |-> EmptyResult, Success |-> FALSE, Error |-> NoError]
ToolCallResult(result, success, error) ==
    [isNil |-> FALSE, Result |-> result, Success |-> success, Error |-> error]

\* what an invocation of the model function returns: (result, err)
FnOk == [err |-> NilErr, valid |-> TRUE]
FnInvalid == [err |-> NilErr, valid |-> FALSE]
FnError(e) == [err |-> e, valid |-> FALSE]

\* the model behind a call: FreeModel may return anything on any invocation;
\* a stub n >= 0 fails transiently on its first n invocations and then succeeds
FreeModel == -1
Stubs == FreeModel..MaxStubFailures

IdleCall ==
    [kind |-> "none", pc |-> "idle", ctx |-> "active", toolName |-> "", stub |-> FreeModel,
     attempt |-> 0, lastErr |-> NilErr, delay |-> Zero64,
     invocations |-> 0, outcomes |-> <<>>, waits |-> <<>>, prompts |-> <<>>,
     result |-> EmptyResult, error |-> NoError,
     res |-> EmptyResult, err |-> NoError, tool |-> NilToolCallResult]

CtxStates == {"active", "canceled", "deadline"}

\* the context a call is made with: live, or cancelled already
StartCtxStates == {"active", "canceled"}
ToolNames == {"", "search"}

\* the outcomes the model function can have for call record r
FnOutcomes(r) ==
    IF r.stub # FreeModel
    THEN IF r.invocations <= r.stub THEN {FnError(e) : e \in TransientErrors} ELSE {FnOk}
    ELSE
    {FnOk}
    \cup {FnError(e) : e \in TransientErrors \cup FatalErrors}
    \cup (IF r.kind = "structured" THEN {FnInvalid, FnError(ErrSchema)} ELSE {})
    \cup (IF r.ctx = "canceled" THEN {FnError(ErrCanceled)} ELSE {})
    \cup (IF r.ctx = "deadline" THEN {FnError(ErrDeadline)} ELSE {})

\* what fn() reads from the provider: p.GetModel() and p.genkit, with the
\* Initialize call that stored the configuration GetModel reads
ProviderInUse == [model |-> GetModel, genkit |-> genkit, configBy |-> init.configBy]

\* fn() is entered: one more invocation, with the prompt of the call
InvokeFn(r) ==
    [r EXCEPT !.pc = "calling",
              !.invocations = @ + 1,
              !.prompts = Append(@, "prompt")]

(***************************************************************************)
(* withRetry (text generation and tool calls).                             *)
(***************************************************************************)
withRetryContinueOneMore(attempt) == attempt <= retryConfig.MaxRetries + 1

\* the loop condition, line 163
withRetryContinue(attempt) == attempt <= retryConfig.MaxRetries

\* the backoff delay, line 166
withRetryDelay(attempt) ==
    Min64(Mul64(retryConfig.BaseDelay, Shl1(attempt - 1)), retryConfig.MaxDelay)

\* the return after the loop, line 194
withRetryFail(r) ==
    [r EXCEPT !.pc = "returned",
              !.result = EmptyResult,
              !.error = AggregatedError("google AI request failed after %d attempts: %w",
                                        retryConfig.MaxRetries + 1, r.lastErr)]

\* the head of the loop for the given value of attempt, lines 163-181
withRetryLoop(r, attempt) ==
    IF withRetryContinue(attempt)
    THEN IF attempt > 0
         THEN [r EXCEPT !.attempt = attempt, !.delay = withRetryDelay(attempt), !.pc = "backoff"]
         ELSE InvokeFn([r EXCEPT !.attempt = attempt])
    ELSE withRetryFail([r EXCEPT !.attempt = attempt])

withRetryAfterFnAlwaysRetry(r, out) ==
    IF out.err = NilErr
    THEN [r EXCEPT !.pc = "returned", !.result = Response(r.invocations, out.valid),
                   !.error = NoError, !.outcomes = Append(@, out)]
    ELSE withRetryLoop([r EXCEPT !.lastErr = out.err, !.outcomes = Append(@, out)], r.attempt + 1)

withRetryAfterFnFirstErr(r, out) ==
    IF out.err = NilErr
    THEN [r EXCEPT !.pc = "returned", !.result = Response(r.invocations, out.valid),
                   !.error = NoError, !.outcomes = Append(@, out)]
    ELSE LET r1 == [r EXCEPT !.lastErr = IF @ = NilErr THEN out.err ELSE @,
                             !.outcomes = Append(@, out)]
         IN  IF ~isRetryable(out.err) THEN withRetryFail(r1)
             ELSE withRetryLoop(r1, r.attempt + 1)

\* fn() has returned out, lines 181-192
withRetryAfterFn(r, out) ==
    IF out.err = NilErr
    THEN [r EXCEPT !.pc = "returned", !.result = Response(r.invocations, out.valid),
                   !.error = NoError, !.outcomes = Append(@, out)]
    ELSE LET r1 == [r EXCEPT !.lastErr = out.err, !.outcomes = Append(@, out)]
         IN  IF ~isRetryable(out.err) THEN withRetryFail(r1)
             ELSE withRetryLoop(r1, r.attempt + 1)

withRetryTimerReadyIgnoringCtx(r) == TRUE

\* case <-time.After(delay) can be taken, lines 173-178: the timer has fired
\* while ctx.Done() was not ready; a timer of zero or negative delay is ready
\* at once, and select then picks either ready case
withRetryTimerReady(r) == r.ctx = "active" \/ ~SLess(Zero64, r.delay)

\* case <-time.After(delay), line 176: the delay has been waited out
withRetryTimer(r) == InvokeFn([r EXCEPT !.waits = Append(@, r.delay)])

\* case <-ctx.Done() taken without returning: the loop keeps waiting
withRetryCtxDoneWaiting(r) == r

\* case <-ctx.Done(), lines 174-175
withRetryCtxDone(r) ==
    [r EXCEPT !.pc = "returned", !.result = EmptyResult, !.error = CtxErr(r.ctx)]

(***************************************************************************)
(* withRetryStructured (structured generation).                            *)
(***************************************************************************)
withRetryStructuredContinueStrict(attempt) == attempt < retryConfig.MaxRetries

\* the loop condition, line 201
withRetryStructuredContinue(attempt) == attempt <= retryConfig.MaxRetries

\* the backoff delay, line 204
withRetryStructuredDelay(attempt) ==
    Min64(Mul64(retryConfig.BaseDelay, Shl1(attempt - 1)), retryConfig.MaxDelay)

\* the return after the loop, line 232
withRetryStructuredFail(r) ==
    [r EXCEPT !.pc = "returned",
              !.result = EmptyResult,
              !.error = AggregatedError("google AI structured request failed after %d attempts: %w",
                                        retryConfig.MaxRetries + 1, r.lastErr)]

\* the head of the loop for the given value of attempt, lines 201-219
withRetryStructuredLoop(r, attempt) ==
    IF withRetryStructuredContinue(attempt)
    THEN IF attempt > 0
         THEN [r EXCEPT !.attempt = attempt, !.delay = withRetryStructuredDelay(attempt),
                        !.pc = "backoff"]
         ELSE InvokeFn([r EXCEPT !.attempt = attempt])
    ELSE withRetryStructuredFail([r EXCEPT !.attempt = attempt])

\* fn() has returned out, lines 219-230
withRetryStructuredAfterFn(r, out) ==
    IF out.err = NilErr
    THEN [r EXCEPT !.pc = "returned", !.result = Response(r.invocations, out.valid),
                   !.error = NoError, !.outcomes = Append(@, out)]
    ELSE LET r1 == [r EXCEPT !.lastErr = out.err, !.outcomes = Append(@, out)]
         IN  IF ~isRetryable(out.err) THEN withRetryStructuredFail(r1)
             ELSE withRetryStructuredLoop(r1, r.attempt + 1)

\* case <-time.After(delay) can be taken, lines 211-216
withRetryStructuredTimerReady(r) == r.ctx = "active" \/ ~SLess(Zero64, r.delay)

\* case <-time.After(delay), line 214
withRetryStructuredTimer(r) == InvokeFn([r EXCEPT !.waits = Append(@, r.delay)])

\* case <-ctx.Done(), lines 212-213
withRetryStructuredCtxDone(r) ==
    [r EXCEPT !.pc = "returned", !.result = EmptyResult, !.error = CtxErr(r.ctx)]

(***************************************************************************)
(* The exported operations.                                                *)
(***************************************************************************)
NotInitialized == NewError("provider not initialized")

Done(r, res, err, tool) ==
    [r EXCEPT !.pc = "done", !.res = res, !.err = err, !.tool = tool]

\* GenerateText returns what withRetry returned, line 135
GenerateTextReturn(r) ==
    IF r.pc = "returned" THEN Done(r, r.result, r.error, NilToolCallResult) ELSE r

\* GenerateWithStructuredOutput returns what withRetryStructured returned, line 145
GenerateWithStructuredOutputReturn(r) ==
    IF r.pc = "returned" THEN Done(r, r.result, r.error, NilToolCallResult) ELSE r

\* CallTool with a failure result that does not carry the error
CallToolReturnDroppingError(r) ==
    IF r.pc = "returned"
    THEN IF r.error # NoError
         THEN Done(r, EmptyResult, r.error, ToolCallResult(EmptyResult, FALSE, NoError))
         ELSE Done(r, r.result, NoError, ToolCallResult(r.result, TRUE, NoError))
    ELSE r

\* CallTool wraps what withRetry returned in a ToolCallResult, lines 345-376
CallToolReturn(r) ==
    IF r.pc = "returned"
    THEN IF r.error # NoError
         THEN Done(r, EmptyResult, r.error, ToolCallResult(EmptyResult, FALSE, r.error))
         ELSE Done(r, r.result, NoError, ToolCallResult(r.result, TRUE, NoError))
    ELSE r

Return(r) ==
    IF r.kind = "tool" THEN CallToolReturn(r)
    ELSE IF r.kind = "structured" THEN GenerateWithStructuredOutputReturn(r)
    ELSE GenerateTextReturn(r)

\* a run makes its call either directly or through the manager
CanStart(c) == c \in slots /\ call[c].pc = "idle" /\ mgr.pc = "idle"

Start(c, kind, ctx, toolName, stub) ==
    [call[c] EXCEPT !.kind = kind, !.ctx = ctx, !.toolName = toolName, !.stub = stub]

GenerateTextUnguarded(c) ==
    /\ CanStart(c)
    /\ \E ctx \in StartCtxStates, stub \in Stubs :
         LET r == Start(c, "text", ctx, "", stub)
             r0 == Start(c, "text", ctx, "", FreeModel)
         IN  call' = [call EXCEPT ![c] = GenerateTextReturn(withRetryLoop(r, 0))]
    /\ UNCHANGED <<initialized, retryConfig, config, genkit, init, slots, mgr, ctl>>

\* GenerateText up to the first invocation of the model, lines 117-133
GenerateText(c) ==
    /\ CanStart(c)
    /\ \E ctx \in StartCtxStates, stub \in Stubs :
         LET r == Start(c, "text", ctx, "", stub)
             r0 == Start(c, "text", ctx, "", FreeModel)
         IN  call' = [call EXCEPT ![c] =
                        IF ~initialized
                        THEN Done(r0, EmptyResult, NotInitialized, NilToolCallResult)
                        ELSE GenerateTextReturn(withRetryLoop(r, 0))]
    /\ UNCHANGED <<initialized, retryConfig, config, genkit, init, slots, mgr, ctl>>

\* GenerateWithStructuredOutput up to the first invocation, lines 139-156
GenerateWithStructuredOutput(c) ==
    /\ CanStart(c)
    /\ \E ctx \in StartCtxStates, stub \in Stubs :
         LET r == Start(c, "structured", ctx, "", stub)
             r0 == Start(c, "structured", ctx, "", FreeModel)
         IN  call' = [call EXCEPT ![c] =
                        IF ~initialized
                        THEN Done(r0, EmptyResult, NotInitialized, NilToolCallResult)
                        ELSE GenerateWithStructuredOutputReturn(withRetryStructuredLoop(r, 0))]
    /\ UNCHANGED <<initialized, retryConfig, config, genkit, init, slots, mgr, ctl>>

\* CallTool without the validation of the tool name
CallToolUnvalidated(c) ==
    /\ CanStart(c)
    /\ \E ctx \in StartCtxStates, toolName \in ToolNames, stub \in Stubs :
         LET r == Start(c, "tool", ctx, toolName, stub)
             r0 == Start(c, "tool", ctx, toolName, FreeModel)
         IN  call' = [call EXCEPT ![c] =
                        IF ~initialized
                        THEN Done(r0, EmptyResult, NotInitialized, NilToolCallResult)
                        ELSE CallToolReturn(withRetryLoop(r, 0))]
    /\ UNCHANGED <<initialized, retryConfig, config, genkit, init, slots, mgr, ctl>>

\* CallTool up to the first invocation, lines 308-343
CallTool(c) ==
    /\ CanStart(c)
    /\ \E ctx \in StartCtxStates, toolName \in ToolNames, stub \in Stubs :
         LET r == Start(c, "tool", ctx, toolName, stub)
             r0 == Start(c, "tool", ctx, toolName, FreeModel)
         IN  call' = [call EXCEPT ![c] =
                        IF ~initialized
                        THEN Done(r0, EmptyResult, NotInitialized, NilToolCallResult)
                        ELSE IF toolName = ""
                        THEN Done(r0, EmptyResult, NewError("tool name cannot be empty"),
                                  ToolCallResult(EmptyResult, FALSE,
                                                 NewError("tool name cannot be empty")))
                        ELSE CallToolReturn(withRetryLoop(r, 0))]
    /\ UNCHANGED <<initialized, retryConfig, config, genkit, init, slots, mgr, ctl>>

\* GenerateStream, lines 293-305
GenerateStream(c) ==
    /\ CanStart(c)
    /\ \E ctx \in StartCtxStates :
         LET r0 == Start(c, "stream", ctx, "", FreeModel)
         IN  call' = [call EXCEPT ![c] =
                        IF ~initialized
                        THEN Done(r0, EmptyResult, NotInitialized, NilToolCallResult)
                        ELSE Done(r0, EmptyResult, NoError, NilToolCallResult)]
    /\ UNCHANGED <<initialized, retryConfig, config, genkit, init, slots, mgr, ctl>>

UsesWithRetry(r) == r.kind \in {"text", "tool"}

\* fn() returns to a loop whose attempt counter is shared by the calls
FnReturnSharedAttempt(c) ==
    /\ call[c].pc = "calling"
    /\ UsesWithRetry(call[c])
    /\ \E out \in FnOutcomes(call[c]) :
         call' = [call EXCEPT ![c] =
                    LET shared == CHOOSE n \in {call[d].attempt : d \in Calls} :
                                      \A d \in Calls : call[d].attempt <= n
                    IN  Return(withRetryAfterFn([call[c] EXCEPT !.attempt = shared], out))]
    /\ UNCHANGED <<initialized, retryConfig, config, genkit, init, slots, mgr, ctl>>

\* the model function of a withRetry call returns
FnReturn(c) ==
    /\ call[c].pc = "calling"
    /\ UsesWithRetry(call[c])
    /\ \E out \in FnOutcomes(call[c]) :
         call' = [call EXCEPT ![c] = Return(withRetryAfterFn(call[c], out))]
    /\ UNCHANGED <<initialized, retryConfig, config, genkit, init, slots, mgr, ctl>>

\* the backoff timer of a withRetry call fires
BackoffTimer(c) ==
    /\ call[c].pc = "backoff"
    /\ UsesWithRetry(call[c])
    /\ withRetryTimerReady(call[c])
    /\ call' = [call EXCEPT ![c] = withRetryTimer(call[c])]
    /\ UNCHANGED <<initialized, retryConfig, config, genkit, init, slots, mgr, ctl>>

\* a withRetry call in backoff sees its context done
BackoffCtxDone(c) ==
    /\ call[c].pc = "backoff"
    /\ UsesWithRetry(call[c])
    /\ call[c].ctx # "active"
    /\ call' = [call EXCEPT ![c] = Return(withRetryCtxDone(call[c]))]
    /\ UNCHANGED <<initialized, retryConfig, config, genkit, init, slots, mgr, ctl>>

\* the model function of a withRetryStructured call returns
StructuredFnReturn(c) ==
    /\ call[c].pc = "calling"
    /\ call[c].kind = "structured"
    /\ \E out \in FnOutcomes(call[c]) :
         call' = [call EXCEPT ![c] = Return(withRetryStructuredAfterFn(call[c], out))]
    /\ UNCHANGED <<initialized, retryConfig, config, genkit, init, slots, mgr, ctl>>

\* the backoff timer of a withRetryStructured call fires
StructuredBackoffTimer(c) ==
    /\ call[c].pc = "backoff"
    /\ call[c].kind = "structured"
    /\ withRetryStructuredTimerReady(call[c])
    /\ call' = [call EXCEPT ![c] = withRetryStructuredTimer(call[c])]
    /\ UNCHANGED <<initialized, retryConfig, config, genkit, init, slots, mgr, ctl>>

\* a withRetryStructured call in backoff sees its context done
StructuredBackoffCtxDone(c) ==
    /\ call[c].pc = "backoff"
    /\ call[c].kind = "structured"
    /\ call[c].ctx # "active"
    /\ call' = [call EXCEPT ![c] = Return(withRetryStructuredCtxDone(call[c]))]
    /\ UNCHANGED <<initialized, retryConfig, config, genkit, init, slots, mgr, ctl>>

\* the caller cancels the context of an in-flight call, or its deadline passes
Cancel(c) ==
    /\ call[c].pc \in {"calling", "backoff"}
    /\ call[c].ctx = "active"
    /\ \E st \in CtxStates \ {"active"} :
         call' = [call EXCEPT ![c].ctx = st]
    /\ UNCHANGED <<initialized, retryConfig, config, genkit, init, slots, mgr, ctl>>

(***************************************************************************)
(* The provider manager (LegacyProviderManager: providers, primary,        *)
(* fallback).  Its primary provider is the GoogleAIProvider above, its     *)
(* fallback provider any other AIProvider.                                 *)
(***************************************************************************)
FallbackNames == {"", "ollama"}

IdleManager ==
    [pc |-> "idle", fallback |-> "", call |-> 0, primary |-> "none",
     fallbackAttempts |-> 0, fallbackOk |-> FALSE, ok |-> FALSE]

\* the primary's call failed with every one of its attempts transient
Exhausted(r) == r.err.kind = "wrap" /\ isRetryable(r.err.wrapped)

ManagerAfterPrimaryNoFallback(m, outcome) ==
    [m EXCEPT !.pc = "done", !.primary = outcome, !.ok = (outcome = "ok")]

\* the primary has been tried with the given outcome: succeed, fall back, or fail
ManagerAfterPrimary(m, outcome) ==
    IF outcome = "ok"
    THEN [m EXCEPT !.pc = "done", !.primary = outcome, !.ok = TRUE]
    ELSE IF m.fallback # "" /\ outcome \in {"unavailable", "exhausted"}
    THEN [m EXCEPT !.pc = "fallback", !.primary = outcome, !.fallbackAttempts = @ + 1]
    ELSE [m EXCEPT !.pc = "done", !.primary = outcome, !.ok = FALSE]

\* the manager's GenerateText: the primary is called when it is available
ManagerGenerateText(c) ==
    /\ mgr.pc = "idle"
    /\ CanStart(c)
    /\ \E fb \in FallbackNames, ctx \in StartCtxStates :
         LET m == [mgr EXCEPT !.fallback = fb, !.call = c]
         IN  IF IsAvailable
             THEN /\ call' = [call EXCEPT ![c] =
                                GenerateTextReturn(withRetryLoop(Start(c, "text", ctx, "", FreeModel), 0))]
                  /\ mgr' = [m EXCEPT !.pc = "primary"]
             ELSE /\ mgr' = ManagerAfterPrimary(m, "unavailable")
                  /\ UNCHANGED call
    /\ UNCHANGED <<initialized, retryConfig, config, genkit, init, slots, ctl>>

\* the primary's GenerateText has returned to the manager
ManagerPrimaryReturn ==
    /\ mgr.pc = "primary"
    /\ call[mgr.call].pc = "done"
    /\ LET r == call[mgr.call]
           outcome == IF r.err = NoError THEN "ok"
                      ELSE IF Exhausted(r) THEN "exhausted"
                      ELSE "failed"
       IN  mgr' = ManagerAfterPrimary(mgr, outcome)
    /\ UNCHANGED <<initialized, retryConfig, config, genkit, init, call, slots, ctl>>

\* the fallback provider's GenerateText has returned to the manager
ManagerFallbackReturn ==
    /\ mgr.pc = "fallback"
    /\ \E ok \in BOOLEAN :
         mgr' = [mgr EXCEPT !.pc = "done", !.fallbackOk = ok, !.ok = ok]
    /\ UNCHANGED <<initialized, retryConfig, config, genkit, init, call, slots, ctl>>

(***************************************************************************)
(* The Drill-Down Controller of a pipeline run (processor.Process).  A     *)
(* span is <<start, end>>; a chunk is identified by its span.              *)
(***************************************************************************)
\* the document of the run
Document == <<0, DocLen>>

SpanLen(span) == span[2] - span[1]

\* the Chunker splits a span into two sub-chunks; a span of one character
\* cannot be split and comes back as it is (the degenerate document)
SubChunks(span) ==
    LET mid == (span[1] + span[2]) \div 2
    IN  IF SpanLen(span) < 2 THEN {span}
        ELSE {<<span[1], mid>>, <<mid, span[2]>>}

\* recursion depths a caller asks for, up to ProcessingConfig.DefaultRecursiveDepth
RecursiveDepths == 1..DefaultRecursiveDepth

MinChunkCharsOptions == {1, 3}

\* relevance scores in tenths, just below and at the selection threshold
ScoreValues == {Threshold - 1, Threshold}

Controller(maxRecursiveDepth, minChunkChars) ==
    [state |-> "Initial",
     depth |-> 0,
     frontier |-> {},
     selected |-> {},
     visitedSpans |-> {},
     maxRecursiveDepth |-> maxRecursiveDepth,
     minChunkChars |-> minChunkChars,
     reason |-> "none",
     err |-> "none",
     context |-> {}]

\* no pipeline run is in progress
NoRun == Controller(RecursiveDepth, 1)

\* Terminal: the currently selected chunks are the final context set
Terminal(c, reason) ==
    [c EXCEPT !.state = "Terminal", !.reason = reason, !.err = "none",
              !.context = c.selected]

\* Initial: frontier = chunk set from the Chunker at depth 0
ControllerStart ==
    /\ ctl.state = "Initial"
    /\ ctl' = [ctl EXCEPT !.state = "Scoring", !.frontier = SubChunks(Document)]
    /\ UNCHANGED <<initialized, retryConfig, config, genkit, init, call, slots, mgr>>

\* Scoring: the Relevance Scorer scores the frontier; chunks at or above the
\* threshold are kept
ControllerScore ==
    /\ ctl.state = "Scoring"
    /\ \E scores \in [ctl.frontier -> ScoreValues] :
         ctl' = [ctl EXCEPT !.state = "Selecting",
                            !.selected = {c \in ctl.frontier : scores[c] >= Threshold}]
    /\ UNCHANGED <<initialized, retryConfig, config, genkit, init, call, slots, mgr>>

\* Selecting: Terminal if nothing is selected, or the depth is
\* maxRecursiveDepth, or every selected span is below minChunkChars
Select(c) ==
    IF c.selected = {} THEN Terminal(c, "NoneSelected")
    ELSE IF c.depth = c.maxRecursiveDepth THEN Terminal(c, "RecursionLimitExceeded")
    ELSE IF \A span \in c.selected : SpanLen(span) < c.minChunkChars
    THEN Terminal(c, "ParagraphGranularity")
    ELSE [c EXCEPT !.state = "Drilling"]

ControllerSelect ==
    /\ ctl.state = "Selecting"
    /\ ctl' = Select(ctl)
    /\ UNCHANGED <<initialized, retryConfig, config, genkit, init, call, slots, mgr>>

\* Drilling that re-enters spans already visited
DrillRevisiting(c) ==
    [c EXCEPT !.state = "Scoring",
              !.depth = c.depth + 1,
              !.visitedSpans = c.visitedSpans \cup c.selected,
              !.frontier = UNION {SubChunks(span) : span \in c.selected},
              !.selected = {}]

\* Drilling: the selected spans are marked visited and re-split at depth+1;
\* a sub-chunk whose span is already visited is not entered
Drill(c) ==
    LET visited == c.visitedSpans \cup c.selected
    IN  [c EXCEPT !.state = "Scoring",
                  !.depth = c.depth + 1,
                  !.visitedSpans = visited,
                  !.frontier = UNION {SubChunks(span) : span \in c.selected} \ visited,
                  !.selected = {}]

ControllerDrill ==
    /\ ctl.state = "Drilling"
    /\ ctl' = Drill(ctl)
    /\ UNCHANGED <<initialized, retryConfig, config, genkit, init, call, slots, mgr>>

\* a cancellation that is also taken in Terminal
CancellableAnywhere(c) == c.state # "Initial"

\* the states in which a cancellation or deadline reaches the controller
Cancellable(c) == c.state \in {"Scoring", "Selecting", "Drilling"}

\* cancellation: directly to Terminal with the context gathered so far
ControllerCancel ==
    /\ Cancellable(ctl)
    /\ ctl' = Terminal(ctl, "Cancelled")
    /\ UNCHANGED <<initialized, retryConfig, config, genkit, init, call, slots, mgr>>

(***************************************************************************)
(* Specifications.                                                         *)
(***************************************************************************)
\* NewGoogleAIProvider, lines 41-55
NewGoogleAIProvider ==
    /\ initialized = FALSE
    /\ retryConfig = DefaultRetryConfig
    /\ config = GoogleAIProviderConfig("", "")
    /\ genkit = 0

NoInitialize == InitIdle("none", 0, FALSE, 0)

Init ==
    /\ NewGoogleAIProvider
    /\ init = NoInitialize
    /\ call = [c \in Calls |-> IdleCall]
    /\ slots = {1}
    /\ mgr = IdleManager
    /\ ctl = NoRun

\* retry configurations with MaxRetries >= 0 and 0 < BaseDelay <= MaxDelay
RetryConfigs ==
    { DefaultRetryConfig,
      [MaxRetries |-> 0, BaseDelay |-> Second, MaxDelay |-> Second],
      [MaxRetries |-> MaxRetriesCapped, BaseDelay |-> Mul64(FromNat(10), Second),
       MaxDelay |-> Mul64(FromNat(30), Second)],
      [MaxRetries |-> 2, BaseDelay |-> Shl1(62), MaxDelay |-> Shl1(62)] }

\* a provider whose retryConfig is any of RetryConfigs
InitCfg ==
    /\ initialized = FALSE
    /\ retryConfig \in RetryConfigs
    /\ config = GoogleAIProviderConfig("", "")
    /\ genkit = 0
    /\ init = NoInitialize
    /\ call = [c \in Calls |-> IdleCall]
    /\ slots = {1}
    /\ mgr = IdleManager
    /\ ctl = NoRun

Next ==
    \/ InitializeBegin
    \/ InitializeGenkitReturn
    \/ InitializePluginReturn
    \/ \E c \in Calls : GenerateText(c)
    \/ \E c \in Calls : GenerateWithStructuredOutput(c)
    \/ \E c \in Calls : CallTool(c)
    \/ \E c \in Calls : GenerateStream(c)
    \/ \E c \in Calls : FnReturn(c)
    \/ \E c \in Calls : BackoffTimer(c)
    \/ \E c \in Calls : BackoffCtxDone(c)
    \/ \E c \in Calls : StructuredFnReturn(c)
    \/ \E c \in Calls : StructuredBackoffTimer(c)
    \/ \E c \in Calls : StructuredBackoffCtxDone(c)
    \/ \E c \in Calls : Cancel(c)
    \/ \E c \in Calls : ManagerGenerateText(c)
    \/ ManagerPrimaryReturn
    \/ ManagerFallbackReturn

Spec == Init /\ [][Next]_vars

SpecCfg == InitCfg /\ [][Next]_vars

\* the calls that Init lets a run start (its slots)
Callers == {1}

\* one step of the call c inside its retry loop: the model function returns,
\* or the select of the backoff wait takes one of its cases
RetryLoopStep(c) ==
    \/ FnReturn(c)
    \/ BackoffTimer(c)
    \/ BackoffCtxDone(c)
    \/ StructuredFnReturn(c)
    \/ StructuredBackoffTimer(c)
    \/ StructuredBackoffCtxDone(c)

\* ENABLED <<RetryLoopStep(c)>>_vars spelled out: the model function of c is
\* running (it can return, and its outcome is recorded), or c waits in the
\* backoff select and one of the two cases can be taken and moves the call on
RetryLoopStepEnabled(c) ==
    LET r == call[c]
    IN  \/ r.pc = "calling"
        \/ /\ r.pc = "backoff"
           /\ UsesWithRetry(r)
           /\ \/ withRetryTimerReady(r)
              \/ r.ctx # "active" /\ Return(withRetryCtxDone(r)) # r
        \/ /\ r.pc = "backoff"
           /\ r.kind = "structured"
           /\ \/ withRetryStructuredTimerReady(r)
              \/ r.ctx # "active" /\ Return(withRetryStructuredCtxDone(r)) # r

\* every model invocation returns and time advances: weak fairness of
\* RetryLoopStep(c), that is WF_vars(RetryLoopStep(c)) with its ENABLED
\* written as the state predicate above
Progress ==
    \A c \in Callers :
        []<>(~RetryLoopStepEnabled(c)) \/ []<><<RetryLoopStep(c)>>_vars

SpecLive == Init /\ [][Next]_vars /\ Progress

\* two goroutines calling the same provider
InitConc ==
    /\ NewGoogleAIProvider
    /\ init = NoInitialize
    /\ call = [c \in Calls |-> IdleCall]
    /\ slots = {1, 2}
    /\ mgr = IdleManager
    /\ ctl = NoRun

\* the part of the concurrent runs that is explored: one Initialize call,
\* and calls of a free model function up to MaxConcInvocations invocations
ConcWindow ==
    /\ init.started <= 1
    /\ \A c \in Calls : /\ call[c].invocations <= MaxConcInvocations
                        /\ call[c].stub = FreeModel

\* GenerateText calls made concurrently on one provider
NextConc ==
    \/ InitializeBegin /\ ConcWindow'
    \/ InitializeGenkitReturn /\ ConcWindow'
    \/ InitializePluginReturn /\ ConcWindow'
    \/ \E c \in Calls : GenerateText(c) /\ ConcWindow'
    \/ \E c \in Calls : FnReturn(c) /\ ConcWindow'
    \/ \E c \in Calls : BackoffTimer(c) /\ ConcWindow'
    \/ \E c \in Calls : BackoffCtxDone(c) /\ ConcWindow'
    \/ \E c \in Calls : Cancel(c) /\ ConcWindow'

SpecConc == InitConc /\ [][NextConc]_vars

\* a run of processor.Process with the caller's recursion depth
InitDrill ==
    /\ NewGoogleAIProvider
    /\ init = NoInitialize
    /\ call = [c \in Calls |-> IdleCall]
    /\ slots = {1}
    /\ mgr = IdleManager
    /\ ctl \in {Controller(d, m) : d \in RecursiveDepths, m \in MinChunkCharsOptions}

\* one step of the state machine
ControllerStep ==
    \/ ControllerStart
    \/ ControllerScore
    \/ ControllerSelect
    \/ ControllerDrill

NextDrill ==
    \/ ControllerStart
    \/ ControllerScore
    \/ ControllerSelect
    \/ ControllerDrill
    \/ ControllerCancel

\* stages within a branch run to completion: a step that can be taken is taken
SpecDrill == InitDrill /\ [][NextDrill]_vars /\ WF_vars(ControllerStep)

(***************************************************************************)
(* Properties.                                                             *)
(***************************************************************************)
RetryKinds == {"text", "structured", "tool"}

ModelErrors ==
    TransientErrors \cup FatalErrors \cup {ErrSchema, ErrCanceled, ErrDeadline}

\* the errors of the model that isRetryable classifies as retryable
RetryableErrors == {e \in ModelErrors : isRetryable(e)}

Transient(out) == out.err \in RetryableErrors
Fatal(out) == out.err # NilErr /\ out.err \notin RetryableErrors

AllTransient(outs) == \A i \in 1..Len(outs) : Transient(outs[i])

\* the call returned the aggregated failure with an empty result
AggregatedFailure(r) ==
    /\ r.err.kind = "wrap"
    /\ r.res = EmptyResult
    /\ r.kind = "tool" => (~r.tool.isNil /\ r.tool.Result = EmptyResult /\ ~r.tool.Success)

\* C1: in one GenerateText, GenerateWithStructuredOutput or CallTool call the
\* model function is invoked at most MaxRetries+1 times, which is at most 4
\* times under the configuration installed by NewGoogleAIProvider.
C1_InvocationBound ==
    \A c \in Calls :
        call[c].kind \in RetryKinds =>
            /\ call[c].invocations <= retryConfig.MaxRetries + 1
            /\ Len(call[c].outcomes) <= call[c].invocations
            /\ retryConfig = DefaultRetryConfig => call[c].invocations <= 4

C1_Witness ==
    \E c \in Calls :
        /\ call[c].pc = "done"
        /\ retryConfig = DefaultRetryConfig
        /\ call[c].invocations = 4
        /\ AllTransient(call[c].outcomes)
        /\ call[c].ctx # "active"

\* C2: a model that fails transiently on its first N invocations and then
\* succeeds, with N < MaxRetries and the context never cancelled, makes the
\* call return the result of invocation N+1 with a nil error after exactly
\* N+1 invocations.
C2_SuccessAfterNFailures ==
    \A c \in Calls :
        ( /\ call[c].pc = "done"
          /\ call[c].kind \in RetryKinds
          /\ call[c].invocations > 0
          /\ call[c].stub # FreeModel
          /\ call[c].stub < retryConfig.MaxRetries
          /\ call[c].ctx = "active" )
        => /\ call[c].err = NoError
           /\ call[c].res = Response(call[c].stub + 1, TRUE)
           /\ call[c].invocations = call[c].stub + 1
           /\ call[c].kind = "tool" =>
                (call[c].tool.Success /\ call[c].tool.Result = Response(call[c].stub + 1, TRUE))

C2_Witness ==
    \E c \in Calls :
        /\ call[c].pc = "done"
        /\ call[c].kind = "text"
        /\ call[c].stub = 2
        /\ call[c].ctx = "active"
        /\ call[c].err = NoError
        /\ call[c].invocations = 3

\* C3 as stated: a model that fails transiently N times before it would
\* succeed, with N >= MaxRetries and the context never cancelled, makes the
\* call return the aggregated failure.
C3_FailureFromMaxRetries ==
    \A c \in Calls :
        ( /\ call[c].pc = "done"
          /\ call[c].kind \in RetryKinds
          /\ call[c].invocations > 0
          /\ call[c].stub # FreeModel
          /\ call[c].stub >= retryConfig.MaxRetries
          /\ call[c].ctx = "active" )
        => AggregatedFailure(call[c])

\* C3 amended: a model that fails transiently N times before it would
\* succeed, with N > MaxRetries and the context never cancelled, makes the
\* call return the aggregated failure after MaxRetries+1 invocations.
C3_FailureBeyondMaxRetries ==
    \A c \in Calls :
        ( /\ call[c].pc = "done"
          /\ call[c].kind \in RetryKinds
          /\ call[c].invocations > 0
          /\ call[c].stub # FreeModel
          /\ call[c].stub > retryConfig.MaxRetries
          /\ call[c].ctx = "active" )
        => /\ AggregatedFailure(call[c])
           /\ call[c].invocations = retryConfig.MaxRetries + 1

C3_Witness ==
    \E c \in Calls :
        /\ call[c].pc = "done"
        /\ call[c].kind = "structured"
        /\ call[c].stub = retryConfig.MaxRetries + 1
        /\ call[c].ctx = "active"
        /\ call[c].invocations = retryConfig.MaxRetries + 1
        /\ call[c].err.kind = "wrap"

\* C4: an invocation that returns an error isRetryable classifies as not
\* retryable is the last one of its call: the call has returned a failure
\* wrapping that error, without a further backoff wait or invocation,
\* however many retries remain.
C4_FatalNotRetried ==
    \A c \in Calls :
        \A i \in 1..Len(call[c].outcomes) :
            Fatal(call[c].outcomes[i]) =>
                /\ i = Len(call[c].outcomes)
                /\ call[c].invocations = i
                /\ Len(call[c].waits) = i - 1
                /\ call[c].pc = "done"
                /\ call[c].err.kind = "wrap"
                /\ call[c].err.wrapped = call[c].outcomes[i].err
                /\ call[c].res = EmptyResult

C4_Witness ==
    \E c \in Calls :
        /\ call[c].pc = "done"
        /\ Len(call[c].outcomes) = 2
        /\ Transient(call[c].outcomes[1])
        /\ call[c].outcomes[2] = FnError(ErrAPIKey)
        /\ call[c].attempt < retryConfig.MaxRetries

\* min(BaseDelay * 2^(k-1), MaxDelay) over the integers
ExpectedDelay(k) ==
    LET product == MulExact(retryConfig.BaseDelay, Shl1(k - 1))
    IN  IF ULess(product, Widen(retryConfig.MaxDelay))
        THEN Low64(product)
        ELSE retryConfig.MaxDelay

\* C5: there is no wait before the first invocation, and the wait before
\* the k-th retry is exactly min(BaseDelay * 2^(k-1), MaxDelay), so that
\* the waits are non-decreasing and never exceed MaxDelay, for every
\* RetryConfig with MaxRetries >= 0 and 0 < BaseDelay <= MaxDelay.
C5_BackoffDelays ==
    \A c \in Calls :
        LET w == IF call[c].pc = "backoff" THEN Append(call[c].waits, call[c].delay)
                 ELSE call[c].waits
        IN  /\ call[c].invocations <= 1 => call[c].waits = <<>>
            /\ \A k \in 1..Len(w) :
                 /\ w[k] = ExpectedDelay(k)
                 /\ ~SLess(retryConfig.MaxDelay, w[k])
                 /\ k > 1 => ~SLess(w[k], w[k - 1])

\* C6: a call whose MaxRetries+1 invocations all returned a transient
\* error returns an error wrapping the error of the last invocation, and
\* an empty result.
C6_WrapsLastError ==
    \A c \in Calls :
        ( /\ call[c].pc = "done"
          /\ Len(call[c].outcomes) = retryConfig.MaxRetries + 1
          /\ AllTransient(call[c].outcomes) )
        => /\ call[c].err.kind = "wrap"
           /\ call[c].err.wrapped = call[c].outcomes[Len(call[c].outcomes)].err
           /\ call[c].res = EmptyResult

C6_Witness ==
    \E c \in Calls :
        /\ call[c].pc = "done"
        /\ Len(call[c].outcomes) = retryConfig.MaxRetries + 1
        /\ AllTransient(call[c].outcomes)
        /\ call[c].outcomes[1].err # call[c].outcomes[Len(call[c].outcomes)].err
        /\ call[c].err.wrapped = ErrUnavailable

\* C7: a call that is waiting in backoff with its context cancelled or past
\* its deadline leaves the wait only by returning the context's error with
\* an empty result: the delay is not waited out and the model function is
\* not invoked again.
C7_CancelDuringBackoff ==
    [][ \A c \in Calls :
          ( /\ call[c].pc = "backoff"
            /\ call[c].ctx # "active"
            /\ call'[c] # call[c] )
          => /\ call'[c].pc = "done"
             /\ call'[c].err = CtxErr(call[c].ctx)
             /\ call'[c].res = EmptyResult
             /\ call'[c].invocations = call[c].invocations
             /\ call'[c].waits = call[c].waits ]_vars

C7_Witness ==
    \E c \in Calls :
        /\ call[c].pc = "done"
        /\ call[c].err = CtxErr("canceled")
        /\ call[c].invocations = 2
        /\ Len(call[c].waits) = 1
        /\ AllTransient(call[c].outcomes)

\* C8: with a fallback provider configured, a manager call whose primary
\* was unavailable or exhausted its retries has attempted the fallback
\* exactly once, and fails exactly when that fallback attempt failed.
C8_FallbackOnce ==
    /\ mgr.fallbackAttempts <= 1
    /\ ( /\ mgr.pc = "done"
         /\ mgr.fallback # ""
         /\ mgr.primary \in {"unavailable", "exhausted"} )
       => /\ mgr.fallbackAttempts = 1
          /\ mgr.ok = mgr.fallbackOk

C8_Witness ==
    /\ mgr.pc = "done"
    /\ mgr.fallback # ""
    /\ mgr.primary = "exhausted"
    /\ mgr.fallbackAttempts = 1
    /\ ~mgr.ok

\* the model's response did not conform to the requested output type
InvalidOutput(out) == out = FnInvalid \/ out = FnError(ErrSchema)

\* C9: a GenerateWithStructuredOutput call whose first response is
\* structurally invalid invokes the model exactly once more, with
\* reinforced formatting instructions, and surfaces a validation failure
\* only if the second response is invalid too.
C9_ValidationRetry ==
    \A c \in Calls :
        ( /\ call[c].pc = "done"
          /\ call[c].kind = "structured"
          /\ Len(call[c].outcomes) >= 1
          /\ InvalidOutput(call[c].outcomes[1]) )
        => /\ call[c].invocations = 2
           /\ call[c].prompts = <<"prompt", "reinforced">>
           /\ (call[c].err # NoError) = InvalidOutput(call[c].outcomes[2])

\* C10: while no Initialize call has succeeded, every GenerateText,
\* GenerateWithStructuredOutput, CallTool and GenerateStream call has
\* returned "provider not initialized" without a model invocation or a
\* backoff wait.
C10_NotInitialized ==
    ~init.succeeded =>
        \A c \in Calls :
            /\ call[c].pc \in {"idle", "done"}
            /\ call[c].pc = "done" =>
                 /\ call[c].err = NotInitialized
                 /\ call[c].res = EmptyResult
                 /\ call[c].tool = NilToolCallResult
                 /\ call[c].invocations = 0
                 /\ call[c].waits = <<>>

C10_Witness ==
    \E c \in Calls :
        /\ ~init.succeeded
        /\ init.started > 0
        /\ call[c].pc = "done"
        /\ call[c].kind = "tool"
        /\ call[c].toolName = ""
        /\ call[c].ctx = "canceled"
        /\ call[c].err = NotInitialized

\* C11: IsAvailable() is true exactly when some Initialize call has
\* succeeded, it never turns from true to false, and an initialized
\* provider has a non-empty API key and a genkit instance.
C11_AvailableIffInitialized ==
    /\ [](/\ IsAvailable <=> init.succeeded
          /\ initialized => (config.APIKey # "" /\ genkit # 0))
    /\ [][IsAvailable => IsAvailable']_vars

C11_Witness ==
    /\ IsAvailable
    /\ init.started = 2
    /\ init.pc = "idle"
    /\ init.result = "failed to initialize Google AI plugin"

\* api_key values that are absent, not a string, or the empty string
BadApiKeys == {k \in ApiKeyInputs : k[1] # "string" \/ k[2] = ""}

\* C12: Initialize called with an absent, empty or non-string api_key
\* returns an error and leaves initialized, config and genkit as they were.
C12_BadKeyLeavesState ==
    [][ \A k \in BadApiKeys, m \in ModelInputs :
          InitializeBeginWith(k, m) =>
              /\ init'.pc = "idle"
              /\ init'.result = "Google AI API key is required"
              /\ init'.succeeded = init.succeeded
              /\ initialized' = initialized
              /\ config' = config
              /\ genkit' = genkit ]_vars

C12_Witness ==
    /\ init.pc = "idle"
    /\ init.result = "Google AI API key is required"
    /\ init.started = 2
    /\ initialized
    /\ config.DefaultModel = "gemini-1.5-pro"

\* the errors a cancelled or expired context makes the model function return
CtxErrors == {ErrCanceled, ErrDeadline}

\* C17: once the context of a call is cancelled, the call starts no new
\* model invocation: every step that invokes the model function, the first
\* invocation of a call included, is taken with the context still active.
C17_NoInvocationAfterCancel ==
    [][ \A c \in Calls :
          call'[c].invocations > call[c].invocations =>
              call'[c].ctx = "active" ]_vars

\* C18: an invocation that fails with "context canceled" or "context deadline
\* exceeded" is classified as not retryable and is the last one of its call:
\* the call ends with a failure wrapping that error, with no backoff wait and
\* no invocation after it.
C18_CtxErrorNotRetried ==
    /\ \A e \in CtxErrors : e \notin RetryableErrors
    /\ \A c \in Calls :
        \A i \in 1..Len(call[c].outcomes) :
            call[c].outcomes[i].err \in CtxErrors =>
                /\ i = Len(call[c].outcomes)
                /\ call[c].invocations = i
                /\ Len(call[c].waits) = i - 1
                /\ call[c].pc = "done"
                /\ call[c].ctx # "active"
                /\ call[c].err.kind = "wrap"
                /\ call[c].err.wrapped = call[c].outcomes[i].err
                /\ call[c].res = EmptyResult

C18_Witness ==
    \E c \in Calls :
        /\ call[c].pc = "done"
        /\ call[c].ctx = "deadline"
        /\ Len(call[c].outcomes) = 2
        /\ call[c].outcomes[1] = FnError(ErrUnavailable)
        /\ call[c].outcomes[2] = FnError(ErrDeadline)
        /\ call[c].err.wrapped = ErrDeadline
        /\ call[c].attempt < retryConfig.MaxRetries

\* what the two retry loops have in common: position, attempt counter,
\* delays, invocations, outcomes seen, and the class of what they return
\* (the message texts differ by the word "structured")
SameProtocol(a, b) ==
    /\ a.pc = b.pc
    /\ a.attempt = b.attempt
    /\ a.delay = b.delay
    /\ a.invocations = b.invocations
    /\ a.waits = b.waits
    /\ a.outcomes = b.outcomes
    /\ a.lastErr = b.lastErr
    /\ a.result = b.result
    /\ a.error.kind = b.error.kind
    /\ a.error.attempts = b.error.attempts
    /\ a.error.wrapped = b.error.wrapped

\* every outcome the model function of a structured call could return in r
AnyOutcomes(r) == FnOutcomes([r EXCEPT !.kind = "structured"])

\* C19: withRetry and withRetryStructured implement the same protocol: from
\* the same loop state, under the same configuration, the same outcome of the
\* model function and the same state of the context, both take the same
\* step (same invocations, same delay, same class of result).
C19_SameProtocol ==
    \A c \in Calls :
        call[c].kind \in RetryKinds =>
            LET r == call[c]
            IN  /\ r.pc = "idle" =>
                     SameProtocol(withRetryLoop(r, 0), withRetryStructuredLoop(r, 0))
                /\ r.pc = "calling" =>
                     \A out \in AnyOutcomes(r) :
                         SameProtocol(withRetryAfterFn(r, out),
                                      withRetryStructuredAfterFn(r, out))
                /\ r.pc = "backoff" =>
                     /\ withRetryTimerReady(r) <=> withRetryStructuredTimerReady(r)
                     /\ SameProtocol(withRetryTimer(r), withRetryStructuredTimer(r))
                     /\ SameProtocol(withRetryCtxDone(r), withRetryStructuredCtxDone(r))

C19_Witness ==
    \E c \in Calls :
        /\ call[c].kind = "structured"
        /\ call[c].pc = "calling"
        /\ call[c].attempt = retryConfig.MaxRetries
        /\ call[c].ctx = "canceled"
        /\ withRetryAfterFn(call[c], FnError(ErrUnavailable)).pc = "returned"
        /\ withRetryStructuredAfterFn(call[c], FnError(ErrUnavailable)).error.kind = "wrap"

\* C20: whenever a call returns the aggregated failure "... failed after K
\* attempts", K is the number of model invocations the call made.
C20_AttemptsAreInvocations ==
    \A c \in Calls :
        (call[c].pc = "done" /\ call[c].err.kind = "wrap") =>
            call[c].err.attempts = call[c].invocations

\* C16: every GenerateText, GenerateWithStructuredOutput or CallTool call
\* eventually returns, whatever errors the model function returns and
\* whenever the context is cancelled, provided each model invocation returns
\* and time advances.
C16_CallsReturn ==
    \A c \in Callers :
        (call[c].pc \in {"calling", "backoff"}) ~> (call[c].pc = "done")

C16_Witness ==
    \E c \in Calls :
        /\ call[c].pc = "done"
        /\ call[c].kind = "tool"
        /\ Len(call[c].waits) = 2
        /\ call[c].invocations = 3
        /\ call[c].err.kind = "ctx"

\* the calls whose model function is running
InFlight == {c \in Calls : call[c].pc = "calling"}

\* C13: when several calls run concurrently against the provider, the
\* number of model invocations in flight never exceeds the maximum
\* in-flight limit.
C13_InFlightBound == Cardinality(InFlight) <= MaxInFlight

\* C14: in every state of the Drill-Down Controller the depth is at most
\* maxRecursiveDepth and no span in visitedSpans is entered again: neither
\* the frontier nor the selection holds a visited span, whatever the scores.
C14_DepthAndVisited ==
    /\ ctl.depth <= ctl.maxRecursiveDepth
    /\ ctl.frontier \cap ctl.visitedSpans = {}
    /\ ctl.selected \cap ctl.visitedSpans = {}

C14_Witness ==
    /\ ctl.state = "Terminal"
    /\ ctl.maxRecursiveDepth = RecursiveDepth
    /\ ctl.depth = ctl.maxRecursiveDepth
    /\ \E span \in ctl.visitedSpans : SpanLen(span) = 1
    /\ ctl.frontier = {}

\* C15: for a finite document the controller always eventually reaches
\* Terminal; once in Terminal it makes no further transition; and ending at
\* the recursion limit is a normal termination: no error, and the selected
\* chunks are the final context.
C15_ReachesTerminal ==
    /\ <>(ctl.state = "Terminal")
    /\ [][ctl.state = "Terminal" => ctl' = ctl]_vars
    /\ [](ctl.reason = "RecursionLimitExceeded" =>
             /\ ctl.state = "Terminal"
             /\ ctl.err = "none"
             /\ ctl.depth = ctl.maxRecursiveDepth
             /\ ctl.context = ctl.selected
             /\ ctl.context # {})

C15_Witness ==
    /\ ctl.state = "Terminal"
    /\ ctl.reason = "RecursionLimitExceeded"
    /\ ctl.maxRecursiveDepth = 2
    /\ ctl.minChunkChars = 1
    /\ Cardinality(ctl.context) = 8

\* an Initialize call returns an error in this step
InitializeFails ==
    /\ init'.pc = "idle"
    /\ init'.started = (IF init.pc = "idle" THEN init.started + 1 ELSE init.started)
    /\ init'.result \in {"Google AI API key is required", "failed to initialize Genkit",
                         "failed to initialize Google AI plugin"}

\* the provider as the returning Initialize call found it
BeforeInitialize ==
    IF init.pc = "idle"
    THEN [initialized |-> initialized, config |-> config, genkit |-> genkit]
    ELSE init.pre

\* C21: whenever Initialize returns an error, at whichever step, GetModel()
\* and IsAvailable() return what they returned before the call and the genkit
\* instance is the one in use before the call.
C21_InitializeAllOrNothing ==
    [][ InitializeFails =>
          LET pre == BeforeInitialize
          IN  /\ GetModel' = (IF pre.config.DefaultModel = "" THEN DefaultModelName
                              ELSE pre.config.DefaultModel)
              /\ IsAvailable' = (pre.config.APIKey # "" /\ pre.initialized)
              /\ genkit' = pre.genkit ]_vars


\* call c enters fn() in this step
Invokes(c) == call'[c].invocations > call[c].invocations

\* C22: every model invocation made by GenerateText,
\* GenerateWithStructuredOutput or CallTool uses a model name and a genkit
\* instance that were both installed by the same successful Initialize call,
\* also when Initialize runs again between the retries of an in-flight call.
C22_InvocationUsesOneInitialize ==
    [][ \A c \in Calls :
          Invokes(c) => /\ ProviderInUse.genkit # 0
                        /\ ProviderInUse.configBy = ProviderInUse.genkit ]_vars


\* GenerateText run with no other call on the provider up to the return of
\* its last model outcome, its model function returning outs[i], outs[i+1], ...
\* and the backoff timer firing between them
RECURSIVE RunAlone(_, _, _)
RunAlone(r, outs, i) ==
    IF i > Len(outs) THEN r
    ELSE LET a == GenerateTextReturn(withRetryAfterFn(r, outs[i]))
         IN  IF a.pc = "backoff" /\ i < Len(outs)
             THEN RunAlone(withRetryTimer(a), outs, i + 1)
             ELSE a

\* the records a GenerateText call with the context and the model outcomes of r
\* can have when it is the only call on the provider
AloneRuns(r) ==
    LET r0  == [IdleCall EXCEPT !.kind = "text", !.ctx = r.ctx, !.stub = r.stub]
        run == RunAlone(GenerateTextReturn(withRetryLoop(r0, 0)), r.outcomes, 1)
    IN  {run}
        \cup (IF run.pc = "backoff" THEN {withRetryTimer(run)} ELSE {})
        \cup (IF run.pc = "backoff" /\ r.ctx # "active"
              THEN {GenerateTextReturn(withRetryCtxDone(run))}
              ELSE {})

\* C23: calls made concurrently on one initialized provider retry
\* independently: each call has its own attempt counter and last error, and
\* its invocations, its delays and its outcome are those of the same call
\* running alone with the same context and the same model outcomes.
C23_CallsRetryIndependently ==
    \A c \in Calls : call[c].invocations > 0 => call[c] \in AloneRuns(call[c])

\* one call is in its first backoff while the other, having waited out its
\* own first backoff, is in its second invocation
C23_Witness ==
    /\ call[1].pc = "backoff" /\ call[1].attempt = 1
    /\ call[2].pc = "calling" /\ call[2].invocations = 2
    /\ call[2].waits = <<Second>>
    /\ call[1].lastErr # call[2].lastErr


\* CallTool returns to caller c in this step, having found the provider
\* initialized when it was called (a call in flight has passed that test)
CallToolReturns(c) ==
    /\ call'[c].kind = "tool"
    /\ call'[c].pc = "done"
    /\ call[c].pc # "done"
    /\ call[c].pc = "idle" => initialized

\* C24: on an initialized provider CallTool always returns a non-nil
\* ToolCallResult whose Success is true exactly when the returned error is nil,
\* with the Error field nil on success and non-nil on failure; the result of
\* a failed CallTool has Result nil.
C24_ToolCallResultShape ==
    [][ \A c \in Calls :
          CallToolReturns(c) =>
            LET tool == call'[c].tool
                err  == call'[c].err
            IN  /\ ~tool.isNil
                /\ tool.Success <=> err = NoError
                /\ tool.Success => tool.Error = NoError
                /\ ~tool.Success => tool.Error # NoError /\ tool.Result = EmptyResult ]_vars

\* CallTool has returned a failure result after the retries of a transient
\* error were used up
C24_Witness ==
    \E c \in Calls :
      /\ call[c].kind = "tool" /\ call[c].pc = "done"
      /\ ~call[c].tool.isNil /\ ~call[c].tool.Success
      /\ call[c].invocations > 1 /\ call[c].err.kind = "wrap"
      /\ call[c].tool.Error = call[c].err

\* a CallTool record read as the record of a GenerateText call: what withRetry
\* did and returned, without the tool name and the ToolCallResult
AsGenerateText(r) ==
    [r EXCEPT !.kind = "text", !.toolName = "", !.tool = NilToolCallResult]

\* CallTool found the provider initialized
CallToolOnInitialized(r) ==
    /\ r.kind = "tool"
    /\ r.pc # "idle"
    /\ r.pc = "done" => ~r.tool.isNil

\* C25: on an initialized provider CallTool with an empty tool name returns
\* the error "tool name cannot be empty" with Success false, having invoked
\* the model zero times and waited for no backoff; with a non-empty tool name
\* its invocations, retry bound and backoff delays are those of GenerateText.
C25_CallToolValidatesAndRetries ==
    \A c \in Calls :
      CallToolOnInitialized(call[c]) =>
        IF call[c].toolName = ""
        THEN /\ call[c].pc = "done"
             /\ call[c].err = NewError("tool name cannot be empty")
             /\ ~call[c].tool.Success
             /\ call[c].invocations = 0
             /\ call[c].waits = <<>>
        ELSE /\ call[c].invocations \in 1..(retryConfig.MaxRetries + 1)
             /\ AsGenerateText(call[c]) \in AloneRuns(AsGenerateText(call[c]))

\* CallTool with an empty tool name has returned on an initialized provider
C25_Witness ==
    \E c \in Calls :
      /\ call[c].kind = "tool" /\ call[c].toolName = ""
      /\ call[c].pc = "done" /\ ~call[c].tool.isNil
      /\ initialized

====
